---- MODULE Spec2Model ----
(***************************************************************************)
(* gofabric8 erase-pvc: the workflow of cmds/erase_pvc.go (erasePVC and    *)
(* findPodsAttachedtoPVC) as a state machine, one action per external      *)
(* request or local step, and the manifest filter of erasePVC as an        *)
(* operator over lines of characters.                                      *)
(*                                                                         *)
(* A line is a sequence of one-character strings, a manifest a sequence of *)
(* lines (what bufio.Scanner hands to the loop, one Text() per line).      *)
(***************************************************************************)
EXTENDS Naturals, Sequences, FiniteSets

VARIABLES
    args,          \* p.args, the positional arguments of erase-pvc
    volumeName,    \* p.volumeName ("" until line 67 sets it)
    pods,          \* the cluster: namespace -> list of pods (pod i is named PodNames[i])
    flagNS,        \* p.userNS, the --namespace flag ("" when not given)
    userNS,        \* the local userNS of erasePVC
    attachedpods,  \* the slice attachedpods
    rangeLen,      \* length of attachedpods when the range loop of line 114 started
    idx,           \* position of the running loop (line 114 or line 178), 1-based
    serviceName,   \* the local serviceName of the loop body
    output,        \* output of `kubectl get -o yaml`, as lines
    outputYAML,    \* the slice outputYAML
    tmpfile,       \* the temporary file: "none", "written" or "removed"
    claimExists,   \* whether the claim exists in the cluster
    requests,      \* every request issued to the cluster with its outcome, in order
    console,       \* what the command printed, in order
    pc,            \* position in erasePVC
    resanitized,   \* a second pass of the filter over outputYAML (SpecSan only)
    retry,         \* a call of RetryAfter (SpecRetry only)
    find           \* a call of FindServiceInEveryNamespace (SpecFind only)

vars == <<args, volumeName, pods, flagNS, userNS, attachedpods, rangeLen, idx,
          serviceName, output, outputYAML, tmpfile, claimExists, requests, console,
          pc, resanitized, retry, find>>

(***************************************************************************)
(* Bounds                                                                  *)
(***************************************************************************)
NumPods == 2     \* at most this many pods in a namespace
MaxLines == 3    \* at most this many lines in a manifest drawn for the filter
MaxAttempts == 3 \* RetryAfter is called with at most this many attempts
MaxProjects == 3 \* the cluster FindServiceInEveryNamespace searches has this many namespaces

(***************************************************************************)
(* Strings as character sequences                                          *)
(***************************************************************************)
IsSpace(ch) == ch \in {" ", "\t"}

RECURSIVE TrimLeft(_)
TrimLeft(s) == IF s # <<>> /\ IsSpace(Head(s)) THEN TrimLeft(Tail(s)) ELSE s

RECURSIVE TrimRight(_)
TrimRight(s) ==
    IF s # <<>> /\ IsSpace(s[Len(s)]) THEN TrimRight(SubSeq(s, 1, Len(s) - 1)) ELSE s

TrimSpace(s) == TrimRight(TrimLeft(s))

HasPrefix(s, prefix) ==
    Len(s) >= Len(prefix) /\ SubSeq(s, 1, Len(prefix)) = prefix

removedExportedLine == <<
    <<"s","e","l","f","L","i","n","k">>,
    <<"r","e","s","o","u","r","c","e","V","e","r","s","i","o","n">>,
    <<"u","i","d">>,
    <<"c","r","e","a","t","i","o","n","T","i","m","e","s","t","a","m","p">>,
    <<"k","u","b","e","c","t","l",".","k","u","b","e","r","n","e","t","e","s",".","i","o","/","l","a","s","t","-","a","p","p","l","i","e","d","-","c","o","n","f","i","g","u","r","a","t","i","o","n",":">>,
    <<"c","o","n","t","r","o","l","-","p","l","a","n","e",".","a","l","p","h","a",".","k","u","b","e","r","n","e","t","e","s",".","i","o","/","l","e","a","d","e","r",":">>,
    <<"p","v",".","k","u","b","e","r","n","e","t","e","s",".","i","o","/">>,
    <<"v","o","l","u","m","e",".","b","e","t","a",".","k","u","b","e","r","n","e","t","e","s",".","i","o","/">>,
    <<"v","o","l","u","m","e","N","a","m","e">> >>

statusLine == <<"s","t","a","t","u","s",":">>

(***************************************************************************)
(* The filter loop of erasePVC (lines 132-159).  The loop state is         *)
(* inStatus and outputYAML; panicked records the run-time panic of text[0] *)
(* on a zero-length line (index out of range), after which nothing runs.   *)
(***************************************************************************)
ScanInit == [inStatus |-> FALSE, outputYAML |-> <<>>, panicked |-> FALSE]

\* lines 139-144: stop is set when the trimmed line starts with any prefix
stopLine(text) ==
    \E k \in 1..Len(removedExportedLine) :
        HasPrefix(TrimSpace(text), removedExportedLine[k])

\* The loop body with the status-block test moved ahead of the prefix test, so
\* that the line ending a status block is appended without the prefix test.
ScanLineBlockTestFirst(st, text) ==
    IF st.panicked THEN st
    ELSE IF st.inStatus /\ text = <<>> THEN [st EXCEPT !.panicked = TRUE]
    ELSE IF st.inStatus /\ text[1] # " "
        THEN [st EXCEPT !.inStatus = FALSE, !.outputYAML = Append(@, text)]
    ELSE IF st.inStatus THEN st
    ELSE IF stopLine(text) THEN st
    ELSE IF text = statusLine THEN [st EXCEPT !.inStatus = TRUE]
    ELSE [st EXCEPT !.outputYAML = Append(@, text)]

\* one iteration of the loop, lines 136-158
ScanLine(st, text) ==
    IF st.panicked THEN st
    ELSE IF stopLine(text) THEN st                                   \* 145-147
    ELSE IF text = statusLine THEN [st EXCEPT !.inStatus = TRUE]     \* 148-151
    ELSE IF st.inStatus /\ text = <<>>
        THEN [st EXCEPT !.panicked = TRUE]                           \* 153: text[0]
    ELSE IF st.inStatus /\ text[1] # " "
        THEN [st EXCEPT !.inStatus = FALSE,
                        !.outputYAML = Append(@, text)]              \* 153-154, 158
    ELSE IF st.inStatus THEN st                                      \* 155-157
    ELSE [st EXCEPT !.outputYAML = Append(@, text)]                  \* 158

RECURSIVE ScanFrom(_, _, _)
ScanFrom(st, lines, k) ==
    IF k > Len(lines) THEN st ELSE ScanFrom(ScanLine(st, lines[k]), lines, k + 1)

\* lines 132-159: the whole loop over the scanner's lines
Sanitize(lines) == ScanFrom(ScanInit, lines, 1)

(***************************************************************************)
(* The cluster and the command line                                        *)
(***************************************************************************)
Namespaces == {"ns1", "ns2"}
CurrentNS == "ns1"                 \* ns, from f.DefaultNamespace() (line 95)

\* the argument lists erase-pvc is started with: none, a claim name, an empty
\* name, two names
ArgLists == {<<>>, <<"data-pv-claim">>, <<"">>, <<"data-pv-claim", "other-claim">>}

\* pod i of a namespace's list has this name (pod names are unique in a namespace)
PodNames == <<"app-1", "app-2", "app-3", "app-4">>

\* volume names are unique within a pod
VolumeLists == {<<"cache">>, <<"cache", "data-pv-claim">>}
ServiceLabels == {"", "app"}
PodSpecs == [volumes : VolumeLists, service : ServiceLabels]
PodLists == UNION {[1..n -> PodSpecs] : n \in 0..NumPods}

PodExists(ns, name) == \E i \in 1..Len(pods[ns]) : PodNames[i] = name
PodNamed(ns, name) == pods[ns][CHOOSE i \in 1..Len(pods[ns]) : PodNames[i] = name]

\* findPodsAttachedtoPVC, lines 203-207: the inner loop over one pod's volumes
RECURSIVE ScanVolumes(_, _, _, _)
ScanVolumes(volumes, k, name, findVolume) ==
    IF k > Len(volumes) THEN <<>>
    ELSE (IF volumes[k] = findVolume THEN <<name>> ELSE <<>>)
             \o ScanVolumes(volumes, k + 1, name, findVolume)

\* lines 202-208: the outer loop over pods.Items
RECURSIVE ScanItems(_, _, _)
ScanItems(items, i, findVolume) ==
    IF i > Len(items) THEN <<>>
    ELSE ScanVolumes(items[i].volumes, 1, PodNames[i], findVolume)
             \o ScanItems(items, i + 1, findVolume)

\* A scan that records every listed pod, whatever its volumes.
findPodsIgnoringVolumes(findVolume, ns) ==
    [i \in 1..Len(pods[ns]) |-> PodNames[i]]

\* findPodsAttachedtoPVC's result when the List call succeeded
findPodsAttachedtoPVC(findVolume, ns) == ScanItems(pods[ns], 1, findVolume)

\* getLabelValueOfPod(c, ns, pod, "service") on an existing pod: its label value
getLabelValueOfPod(ns, pod) == PodNamed(ns, pod).service

\* getPodsDependOfService(c, ns, serviceName): the pods of ns with that label value
RECURSIVE PodsWithService(_, _, _)
PodsWithService(items, i, service) ==
    IF i > Len(items) THEN <<>>
    ELSE (IF items[i].service = service THEN <<PodNames[i]>> ELSE <<>>)
             \o PodsWithService(items, i + 1, service)

getPodsDependOfService(ns, service) == PodsWithService(pods[ns], 1, service)

(***************************************************************************)
(* Manifests                                                               *)
(***************************************************************************)
\* the manifest of the end-to-end scenario
E2EManifest == <<
    <<"a","p","i","V","e","r","s","i","o","n",":"," ","v","1">>,
    <<"m","e","t","a","d","a","t","a",":">>,
    <<" "," ","s","e","l","f","L","i","n","k",":"," ","/","x">>,
    <<" "," ","n","a","m","e",":"," ","f","o","o">>,
    statusLine,
    <<" "," ","p","h","a","s","e",":"," ","B","o","u","n","d">>,
    <<"s","p","e","c",":">>,
    <<" "," ","c","a","p","a","c","i","t","y",":"," ","1","G","i">> >>

\* what `kubectl get -o yaml` may print when it succeeds
ExportedManifests ==
    { <<>>,
      E2EManifest,
      << <<"k","i","n","d",":"," ","P","V","C">>, statusLine, <<>> >> }

\* the lines manifests are drawn from for the filter on its own
LinePool ==
    { <<>>,
      statusLine,
      <<"s","p","e","c",":">>,
      <<" "," ","p","h","a","s","e",":"," ","B","o","u","n","d">>,
      <<"u","i","d",":"," ","1">>,
      <<" "," ","s","e","l","f","L","i","n","k",":"," ","/","x">>,
      <<"\t","n","a","m","e",":"," ","f","o","o">> }

Manifests == UNION {[1..n -> LinePool] : n \in 0..MaxLines} \cup {E2EManifest}

(***************************************************************************)
(* Requests, output and exits                                              *)
(***************************************************************************)
cmdGet == <<"kubectl", "get", "-o", "yaml", "-n", userNS, "pvc", volumeName>>
cmdDeleteClaim == <<"kubectl", "delete", "-n", userNS, "pvc", volumeName>>
cmdCreate == <<"kubectl", "create", "-n", userNS, "-f", "tmpfile">>
cmdDeletePod(pod) == <<"kubectl", "delete", "-n", userNS, "pod", pod>>

\* a request and whether the cluster carried it out
Issue(request, ok) == requests' = Append(requests, [cmd |-> request, ok |-> ok])

\* util.Fatal and cmdutil.CheckErr on an error: print it and exit
Fatal(what) ==
    /\ console' = Append(console, [level |-> "fatal", text |-> what])
    /\ pc' = "halted"

Printed(level, what) == console' = Append(console, [level |-> level, text |-> what])

(***************************************************************************)
(* The state after construction                                            *)
(***************************************************************************)
Init ==
    /\ args \in ArgLists
    /\ volumeName = ""
    /\ retry = "idle"
    /\ find = "idle"
    /\ pods \in [Namespaces -> PodLists]
    /\ flagNS \in {""} \cup Namespaces
    /\ userNS = ""
    /\ attachedpods = <<>>
    /\ rangeLen = 0
    /\ idx = 0
    /\ serviceName = ""
    /\ output = <<>>
    /\ outputYAML = <<>>
    /\ tmpfile = "none"
    /\ claimExists = TRUE
    /\ requests = <<>>
    /\ console = <<>>
    /\ pc = "run"
    /\ resanitized = <<>>

(***************************************************************************)
(* erasePVC, one action per request or local step.  Every request either   *)
(* fails (the first disjunct: the error is printed and the process exits)  *)
(* or is carried out.                                                      *)
(***************************************************************************)
\* where the loop of line 114 goes after the element at position i
AfterLabelLoop(i) == IF i + 1 > rangeLen THEN "export" ELSE "label"

\* lines 59-70, the Run callback up to the call of erasePVC: the argument count
\* is tested, the only argument becomes the claim name
Run ==
    /\ pc = "run"
    /\ IF Len(args) # 1
          THEN /\ Fatal(<<"We need a PVC to delete as argument.">>)
               /\ UNCHANGED volumeName
          ELSE /\ volumeName' = args[1]
               /\ pc' = "start"
               /\ UNCHANGED console
    /\ UNCHANGED <<args, retry, find>>
    /\ UNCHANGED <<pods, flagNS, userNS, attachedpods, rangeLen, idx, serviceName,
                   output, outputYAML, tmpfile, claimExists, requests, resanitized>>

\* lines 94-104: clients, detectCurrentUserNamespace, the --namespace flag
ResolveNamespace ==
    /\ pc = "start"
    /\ \/ /\ Issue(<<"detectCurrentUserNamespace", CurrentNS>>, FALSE)
          /\ Fatal(<<"detectCurrentUserNamespace">>)
          /\ UNCHANGED userNS
       \/ /\ Issue(<<"detectCurrentUserNamespace", CurrentNS>>, TRUE)
          /\ userNS' = IF flagNS # "" THEN flagNS ELSE CurrentNS
          /\ pc' = "list"
          /\ UNCHANGED console
    /\ UNCHANGED <<args, volumeName, retry, find>>
    /\ UNCHANGED <<pods, flagNS, attachedpods, rangeLen, idx, serviceName, output,
                   outputYAML, tmpfile, claimExists, resanitized>>

\* lines 111-112 with findPodsAttachedtoPVC (195-211)
FindPods ==
    /\ pc = "list"
    /\ \/ /\ Issue(<<"Pods.List", userNS>>, FALSE)
          /\ Fatal(<<"Pods.List">>)
          /\ UNCHANGED <<attachedpods, rangeLen, idx>>
       \/ /\ Issue(<<"Pods.List", userNS>>, TRUE)
          /\ attachedpods' = findPodsAttachedtoPVC(volumeName, userNS)
          /\ rangeLen' = Len(attachedpods')
          /\ idx' = 1
          /\ pc' = IF rangeLen' = 0 THEN "export" ELSE "label"
          /\ UNCHANGED console
    /\ UNCHANGED <<args, volumeName, retry, find>>
    /\ UNCHANGED <<pods, flagNS, userNS, serviceName, output, outputYAML, tmpfile,
                   claimExists, resanitized>>

\* lines 114-117: the service label of the pod at the loop position
GetLabel ==
    /\ pc = "label"
    /\ LET pod == attachedpods[idx]
           request == <<"getLabelValueOfPod", CurrentNS, pod, "service">>
       IN  \/ /\ Issue(request, FALSE)
              /\ Fatal(<<"getLabelValueOfPod">>)
              /\ UNCHANGED <<serviceName, idx>>
           \/ /\ PodExists(CurrentNS, pod)
              /\ Issue(request, TRUE)
              /\ serviceName' = getLabelValueOfPod(CurrentNS, pod)
              /\ IF serviceName' # ""
                    THEN pc' = "service" /\ UNCHANGED idx
                    ELSE pc' = AfterLabelLoop(idx) /\ idx' = idx + 1
              /\ UNCHANGED console
    /\ UNCHANGED <<args, volumeName, retry, find>>
    /\ UNCHANGED <<pods, flagNS, userNS, attachedpods, rangeLen, output, outputYAML,
                   tmpfile, claimExists, resanitized>>

\* The append of lines 118-123 with the loop re-reading the collection's length,
\* so that the appended pods are visited as well.
GetServicePodsReexpanding ==
    /\ pc = "service"
    /\ LET request == <<"getPodsDependOfService", CurrentNS, serviceName>>
       IN  \/ /\ Issue(request, FALSE)
              /\ Fatal(<<"getPodsDependOfService">>)
              /\ UNCHANGED <<attachedpods, idx, rangeLen>>
           \/ /\ Issue(request, TRUE)
              /\ attachedpods' =
                     attachedpods \o getPodsDependOfService(CurrentNS, serviceName)
              /\ rangeLen' = Len(attachedpods')
              /\ idx' = idx + 1
              /\ pc' = IF idx + 1 > rangeLen' THEN "export" ELSE "label"
              /\ UNCHANGED console
    /\ UNCHANGED <<args, volumeName, retry, find>>
    /\ UNCHANGED <<pods, flagNS, userNS, serviceName, output, outputYAML,
                   tmpfile, claimExists, resanitized>>

\* lines 118-123: the pods of that service are appended
GetServicePods ==
    /\ pc = "service"
    /\ LET request == <<"getPodsDependOfService", CurrentNS, serviceName>>
       IN  \/ /\ Issue(request, FALSE)
              /\ Fatal(<<"getPodsDependOfService">>)
              /\ UNCHANGED <<attachedpods, idx>>
           \/ /\ Issue(request, TRUE)
              /\ attachedpods' =
                     attachedpods \o getPodsDependOfService(CurrentNS, serviceName)
              /\ idx' = idx + 1
              /\ pc' = AfterLabelLoop(idx)
              /\ UNCHANGED console
    /\ UNCHANGED <<args, volumeName, retry, find>>
    /\ UNCHANGED <<pods, flagNS, userNS, rangeLen, serviceName, output, outputYAML,
                   tmpfile, claimExists, resanitized>>

\* The export step going on with no output although kubectl get failed.
ExportManifestIgnoringError ==
    /\ pc = "export"
    /\ \/ /\ Issue(cmdGet, FALSE)
          /\ output' = <<>>
       \/ /\ claimExists
          /\ Issue(cmdGet, TRUE)
          /\ output' \in ExportedManifests
    /\ pc' = "sanitize"
    /\ UNCHANGED <<args, volumeName, retry, find>>
    /\ UNCHANGED <<pods, flagNS, userNS, attachedpods, rangeLen, idx, serviceName,
                   outputYAML, tmpfile, claimExists, console, resanitized>>

\* lines 126-130: kubectl get -o yaml
ExportManifest ==
    /\ pc = "export"
    /\ \/ /\ Issue(cmdGet, FALSE)
          /\ Fatal(cmdGet)
          /\ UNCHANGED output
       \/ /\ claimExists
          /\ Issue(cmdGet, TRUE)
          /\ output' \in ExportedManifests
          /\ pc' = "sanitize"
          /\ UNCHANGED console
    /\ UNCHANGED <<args, volumeName, retry, find>>
    /\ UNCHANGED <<pods, flagNS, userNS, attachedpods, rangeLen, idx, serviceName,
                   outputYAML, tmpfile, claimExists, resanitized>>

\* lines 132-159: the filter loop; a panic ends the process
FilterManifest ==
    /\ pc = "sanitize"
    /\ LET st == Sanitize(output) IN
        IF st.panicked
            THEN /\ pc' = "panic"
                 /\ Printed("panic", <<"index out of range">>)
                 /\ UNCHANGED outputYAML
            ELSE /\ outputYAML' = st.outputYAML
                 /\ pc' = "tmpfile"
                 /\ UNCHANGED console
    /\ UNCHANGED <<args, volumeName, retry, find>>
    /\ UNCHANGED <<pods, flagNS, userNS, attachedpods, rangeLen, idx, serviceName,
                   output, tmpfile, claimExists, requests, resanitized>>

\* lines 160-164: ioutil.TempFile, then writeLines (76-89)
WriteTmpFile ==
    /\ pc = "tmpfile"
    /\ \/ Fatal(<<"TempFile">>) /\ UNCHANGED tmpfile
       \/ Fatal(<<"writeLines">>) /\ tmpfile' = "created"
       \/ tmpfile' = "written" /\ pc' = "delete" /\ UNCHANGED console
    /\ UNCHANGED <<args, volumeName, retry, find>>
    /\ UNCHANGED <<pods, flagNS, userNS, attachedpods, rangeLen, idx, serviceName,
                   output, outputYAML, claimExists, requests, resanitized>>

\* The delete step going on to the create although kubectl delete failed.
DeleteClaimIgnoringError ==
    /\ pc = "delete"
    /\ \/ /\ Issue(cmdDeleteClaim, FALSE)
          /\ UNCHANGED claimExists
       \/ /\ claimExists
          /\ Issue(cmdDeleteClaim, TRUE)
          /\ claimExists' = FALSE
    /\ pc' = "create"
    /\ UNCHANGED <<args, volumeName, retry, find>>
    /\ UNCHANGED <<pods, flagNS, userNS, attachedpods, rangeLen, idx, serviceName,
                   output, outputYAML, tmpfile, console, resanitized>>

\* The delete step trying the delete once more after a failure.
DeleteClaimRetrying ==
    /\ pc = "delete"
    /\ \/ /\ Issue(cmdDeleteClaim, FALSE)
          /\ IF \E i \in 1..Len(requests) : requests[i].cmd = cmdDeleteClaim
                THEN Fatal(cmdDeleteClaim)
                ELSE UNCHANGED <<pc, console>>
          /\ UNCHANGED claimExists
       \/ /\ claimExists
          /\ Issue(cmdDeleteClaim, TRUE)
          /\ claimExists' = FALSE
          /\ pc' = "create"
          /\ UNCHANGED console
    /\ UNCHANGED <<args, volumeName, retry, find>>
    /\ UNCHANGED <<pods, flagNS, userNS, attachedpods, rangeLen, idx, serviceName,
                   output, outputYAML, tmpfile, resanitized>>

\* lines 166-170: kubectl delete pvc
DeleteClaim ==
    /\ pc = "delete"
    /\ \/ /\ Issue(cmdDeleteClaim, FALSE)
          /\ Fatal(cmdDeleteClaim)
          /\ UNCHANGED claimExists
       \/ /\ claimExists
          /\ Issue(cmdDeleteClaim, TRUE)
          /\ claimExists' = FALSE
          /\ pc' = "create"
          /\ UNCHANGED console
    /\ UNCHANGED <<args, volumeName, retry, find>>
    /\ UNCHANGED <<pods, flagNS, userNS, attachedpods, rangeLen, idx, serviceName,
                   output, outputYAML, tmpfile, resanitized>>

\* The create step going on to the pods although kubectl create failed.
CreateClaimIgnoringError ==
    /\ pc = "create"
    /\ \/ /\ Issue(cmdCreate, FALSE)
          /\ UNCHANGED claimExists
       \/ /\ outputYAML # <<>>
          /\ Issue(cmdCreate, TRUE)
          /\ claimExists' = TRUE
    /\ idx' = 1
    /\ rangeLen' = Len(attachedpods)
    /\ pc' = IF attachedpods = <<>> THEN "finish" ELSE "evict"
    /\ UNCHANGED <<args, volumeName, retry, find>>
    /\ UNCHANGED <<pods, flagNS, userNS, attachedpods, serviceName, output,
                   outputYAML, tmpfile, console, resanitized>>

\* lines 172-176: kubectl create -f <tmpfile>; kubectl creates nothing from a
\* file without content
CreateClaim ==
    /\ pc = "create"
    /\ \/ /\ Issue(cmdCreate, FALSE)
          /\ Fatal(cmdCreate)
          /\ UNCHANGED <<claimExists, idx, rangeLen>>
       \/ /\ outputYAML # <<>>
          /\ Issue(cmdCreate, TRUE)
          /\ claimExists' = TRUE
          /\ idx' = 1
          /\ rangeLen' = Len(attachedpods)
          /\ pc' = IF attachedpods = <<>> THEN "finish" ELSE "evict"
          /\ UNCHANGED console
    /\ UNCHANGED <<args, volumeName, retry, find>>
    /\ UNCHANGED <<pods, flagNS, userNS, attachedpods, serviceName, output,
                   outputYAML, tmpfile, resanitized>>

\* The eviction loop going on to the next pod when a pod delete failed.
DeletePodContinueOnError ==
    /\ pc = "evict"
    /\ LET pod == attachedpods[idx] IN
        \/ /\ Issue(cmdDeletePod(pod), FALSE)
           /\ Printed("error", cmdDeletePod(pod))
        \/ /\ PodExists(userNS, pod)
           /\ Issue(cmdDeletePod(pod), TRUE)
           /\ Printed("success", <<"deleted", pod, volumeName>>)
    /\ idx' = idx + 1
    /\ pc' = IF idx + 1 > rangeLen THEN "finish" ELSE "evict"
    /\ UNCHANGED <<args, volumeName, retry, find>>
    /\ UNCHANGED <<pods, flagNS, userNS, attachedpods, rangeLen, serviceName, output,
                   outputYAML, tmpfile, claimExists, resanitized>>

\* lines 178-185: kubectl delete pod for the pod at the loop position
DeletePod ==
    /\ pc = "evict"
    /\ LET pod == attachedpods[idx] IN
        \/ /\ Issue(cmdDeletePod(pod), FALSE)
           /\ Fatal(cmdDeletePod(pod))
           /\ UNCHANGED idx
        \/ /\ PodExists(userNS, pod)
           /\ Issue(cmdDeletePod(pod), TRUE)
           /\ Printed("success", <<"deleted", pod, volumeName>>)
           /\ idx' = idx + 1
           /\ pc' = IF idx + 1 > rangeLen THEN "finish" ELSE "evict"
    /\ UNCHANGED <<args, volumeName, retry, find>>
    /\ UNCHANGED <<pods, flagNS, userNS, attachedpods, rangeLen, serviceName, output,
                   outputYAML, tmpfile, claimExists, resanitized>>

\* lines 187-190: the success message, os.Remove, return
Finish ==
    /\ pc = "finish"
    /\ Printed("success", <<"recreated", volumeName>>)
    /\ tmpfile' = "removed"
    /\ pc' = "done"
    /\ UNCHANGED <<args, volumeName, retry, find>>
    /\ UNCHANGED <<pods, flagNS, userNS, attachedpods, rangeLen, idx, serviceName,
                   output, outputYAML, claimExists, requests, resanitized>>

Next ==
    \/ Run
    \/ ResolveNamespace
    \/ FindPods
    \/ GetLabel
    \/ GetServicePods
    \/ ExportManifest
    \/ FilterManifest
    \/ WriteTmpFile
    \/ DeleteClaim
    \/ CreateClaim
    \/ DeletePod
    \/ Finish

Spec == Init /\ [][Next]_vars

(***************************************************************************)
(* The filter on its own: a manifest is drawn, the loop of lines 132-159   *)
(* runs over it, and then once more over its own output.                   *)
(***************************************************************************)
InitSan ==
    /\ args = <<>>
    /\ volumeName = ""
    /\ retry = "idle"
    /\ find = "idle"
    /\ pods = [n \in Namespaces |-> <<>>]
    /\ flagNS = ""
    /\ userNS = ""
    /\ attachedpods = <<>>
    /\ rangeLen = 0
    /\ idx = 0
    /\ serviceName = ""
    /\ output \in Manifests
    /\ outputYAML = <<>>
    /\ tmpfile = "none"
    /\ claimExists = TRUE
    /\ requests = <<>>
    /\ console = <<>>
    /\ pc = "filter"
    /\ resanitized = <<>>

FilterOnce ==
    /\ pc = "filter"
    /\ LET st == Sanitize(output) IN
        IF st.panicked
            THEN pc' = "filter_panic" /\ UNCHANGED outputYAML
            ELSE pc' = "filtered" /\ outputYAML' = st.outputYAML
    /\ UNCHANGED <<args, volumeName, retry, find>>
    /\ UNCHANGED <<pods, flagNS, userNS, attachedpods, rangeLen, idx, serviceName,
                   output, tmpfile, claimExists, requests, console, resanitized>>

FilterAgain ==
    /\ pc = "filtered"
    /\ LET st == Sanitize(outputYAML) IN
        IF st.panicked
            THEN pc' = "refilter_panic" /\ UNCHANGED resanitized
            ELSE pc' = "refiltered" /\ resanitized' = st.outputYAML
    /\ UNCHANGED <<args, volumeName, retry, find>>
    /\ UNCHANGED <<pods, flagNS, userNS, attachedpods, rangeLen, idx, serviceName,
                   output, outputYAML, tmpfile, claimExists, requests, console>>

NextSan == FilterOnce \/ FilterAgain

SpecSan == InitSan /\ [][NextSan]_vars

(***************************************************************************)
(* RetryAfter and MultiError (cmds/service.go, lines 301-334).  The        *)
(* callback is the caller's: each invocation returns nil or an error with  *)
(* some text.                                                              *)
(***************************************************************************)
\* texts of the errors a callback returns: errors.New("") of line 207, a plain
\* text, a text with a percent sign
ErrorTexts ==
    { <<>>,
      <<"n","o","t"," ","r","e","a","d","y">>,
      <<"1","0","0","%"," ","b","u","s","y">> }

\* strings.Join(elems, sep)
RECURSIVE Join(_, _)
Join(elems, sep) ==
    IF elems = <<>> THEN <<>>
    ELSE IF Len(elems) = 1 THEN elems[1]
    ELSE elems[1] \o sep \o Join(Tail(elems), sep)

\* fmt.Errorf(format) called without operands: what fmt makes of the format.
\* After a percent sign fmt reads flags, a width and a precision, then the
\* verb: `%%` prints a percent sign, any other verb finds no operand and
\* prints %!verb(MISSING), a format ending inside the directive %!(NOVERB).
FmtFlags == {"#", "0", "+", "-", " "}
FmtDigits == {"0", "1", "2", "3", "4", "5", "6", "7", "8", "9", "."}

RECURSIVE SkipChars(_, _, _)
SkipChars(format, k, chars) ==
    IF k <= Len(format) /\ format[k] \in chars
        THEN SkipChars(format, k + 1, chars) ELSE k

RECURSIVE FormatFrom(_, _)
FormatFrom(format, k) ==
    IF k > Len(format) THEN <<>>
    ELSE IF format[k] # "%" THEN <<format[k]>> \o FormatFrom(format, k + 1)
    ELSE LET v == SkipChars(format, SkipChars(format, k + 1, FmtFlags), FmtDigits)
         IN  IF v > Len(format)
                 THEN <<"%","!","(","N","O","V","E","R","B",")">>
             ELSE IF format[v] = "%"
                 THEN <<"%">> \o FormatFrom(format, v + 1)
             ELSE <<"%","!",format[v],"(","M","I","S","S","I","N","G",")">>
                      \o FormatFrom(format, v + 1)

Errorf(format) == FormatFrom(format, 1)

\* MultiError.Collect, lines 318-322
Collect(errors, err) == IF err.isNil THEN errors ELSE Append(errors, err.text)

\* MultiError.ToError, lines 324-334
ToError(errors) ==
    IF Len(errors) = 0
        THEN [isNil |-> TRUE, text |-> <<>>]
        ELSE [isNil |-> FALSE, text |-> Errorf(Join(errors, <<"\n">>))]

NilError == [isNil |-> TRUE, text |-> <<>>]
CallbackResults == {NilError} \cup {[isNil |-> FALSE, text |-> t] : t \in ErrorTexts}

InitRetry ==
    /\ args = <<>>
    /\ volumeName = ""
    /\ find = "idle"
    /\ pods = [n \in Namespaces |-> <<>>]
    /\ flagNS = ""
    /\ userNS = ""
    /\ attachedpods = <<>>
    /\ rangeLen = 0
    /\ idx = 0
    /\ serviceName = ""
    /\ output = <<>>
    /\ outputYAML = <<>>
    /\ tmpfile = "none"
    /\ claimExists = TRUE
    /\ requests = <<>>
    /\ console = <<>>
    /\ pc = "retry"
    /\ resanitized = <<>>
    /\ \E n \in 0..MaxAttempts :
          retry = [attempts |-> n,      \* the parameter attempts
                   i |-> 0,             \* the loop variable
                   Errors |-> <<>>,     \* m.Errors
                   calls |-> <<>>,      \* what each invocation of callback returned
                   returned |-> FALSE,
                   err |-> NilError]    \* the value returned

\* lines 303-310: one pass of the loop: the callback, return on nil, Collect, Sleep
RetryAttempt ==
    /\ pc = "retry"
    /\ ~retry.returned
    /\ retry.i < retry.attempts
    /\ \E err \in CallbackResults :
          retry' = IF err.isNil
                      THEN [retry EXCEPT !.calls = Append(@, err),
                                         !.returned = TRUE,
                                         !.err = NilError]
                      ELSE [retry EXCEPT !.calls = Append(@, err),
                                         !.Errors = Collect(@, err),
                                         !.i = @ + 1]
    /\ UNCHANGED <<args, volumeName, find>>
    /\ UNCHANGED <<pods, flagNS, userNS, attachedpods, rangeLen, idx, serviceName,
                   output, outputYAML, tmpfile, claimExists, requests, console, pc,
                   resanitized>>

\* line 311: the loop is over, return m.ToError()
RetryReturn ==
    /\ pc = "retry"
    /\ ~retry.returned
    /\ retry.i >= retry.attempts
    /\ retry' = [retry EXCEPT !.returned = TRUE, !.err = ToError(retry.Errors)]
    /\ UNCHANGED <<args, volumeName, find>>
    /\ UNCHANGED <<pods, flagNS, userNS, attachedpods, rangeLen, idx, serviceName,
                   output, outputYAML, tmpfile, claimExists, requests, console, pc,
                   resanitized>>

NextRetry == RetryAttempt \/ RetryReturn

SpecRetry == InitRetry /\ [][NextRetry]_vars


(***************************************************************************)
(* FindServiceInEveryNamespace (cmds/service.go, lines 105-154), one action *)
(* per client call.                                                        *)
(***************************************************************************)
ProjectNames == <<"ns1", "ns2", "ns3", "ns4", "ns5">>
Projects == {ProjectNames[n] : n \in 1..MaxProjects}

\* what a namespace holds under the service's name: nothing, a service without
\* the exposeUrl annotation, a service with it
NoService == [exists |-> FALSE, url |-> <<>>]
ServiceIn(ns) == {NoService,
                  [exists |-> TRUE, url |-> <<>>],
                  [exists |-> TRUE, url |-> <<"http://", ns>>]}

\* the items of a successful Projects().List or Namespaces().List: the
\* namespaces the caller may see, each once
Listings ==
    UNION {{l \in [1..n -> Projects] : \A a, b \in 1..n : a # b => l[a] # l[b]} :
               n \in 0..MaxProjects}

\* the returns of lines 112-117, 129-134 and 144-149 on the object svc
ResultOf(svc) ==
    IF Len(svc.url) > 0
        THEN [url |-> svc.url, err |-> "nil"]
        ELSE [url |-> <<>>, err |-> "no url annotations has been set for service"]

\* line 153
NotFound ==
    [url |-> <<>>, err |-> "service has not been found in any namespaces or projects"]

InitFind ==
    /\ args = <<>>
    /\ volumeName = ""
    /\ retry = "idle"
    /\ pods = [n \in Namespaces |-> <<>>]
    /\ flagNS = ""
    /\ userNS = ""
    /\ attachedpods = <<>>
    /\ rangeLen = 0
    /\ idx = 0
    /\ serviceName = ""
    /\ output = <<>>
    /\ outputYAML = <<>>
    /\ tmpfile = "none"
    /\ claimExists = TRUE
    /\ requests = <<>>
    /\ console = <<>>
    /\ pc = "find"
    /\ resanitized = <<>>
    /\ \E master \in {"OpenShift", "Kubernetes"}, items \in Listings,
          services \in [Projects -> UNION {ServiceIn(n) : n \in Projects}] :
          /\ \A n \in Projects : services[n] \in ServiceIn(n)
          /\ find = [typeOfMaster |-> master,   \* util.TypeOfMaster(c)
                     services |-> services,     \* the cluster's services of that name
                     items |-> items,           \* what the List call returns
                     at |-> "current",          \* current, list, loop, returned, panic
                     k |-> 0,                   \* position of the range loop
                     gets |-> <<>>,             \* the namespaces Get was called on
                     result |-> NotFound]       \* the values returned

FindReturn(result) == [find EXCEPT !.at = "returned", !.result = result]

\* lines 109-118: Get in the current namespace
FindInCurrent ==
    /\ pc = "find"
    /\ find.at = "current"
    /\ LET svc == find.services[CurrentNS]
           got == [find EXCEPT !.gets = Append(@, CurrentNS)]
       IN  find' = IF svc.exists
                      THEN [got EXCEPT !.at = "returned", !.result = ResultOf(svc)]
                      ELSE [got EXCEPT !.at = "list"]
    /\ UNCHANGED <<args, volumeName, retry>>
    /\ UNCHANGED <<pods, flagNS, userNS, attachedpods, rangeLen, idx, serviceName,
                   output, outputYAML, tmpfile, claimExists, requests, console, pc,
                   resanitized>>

\* lines 120-125 and 137-141: the projects or the namespaces are listed
FindList ==
    /\ pc = "find"
    /\ find.at = "list"
    /\ \/ find' = FindReturn([url |-> <<>>, err |-> "List"])
       \/ find' = IF find.items = <<>>
                     THEN FindReturn(NotFound)
                     ELSE [find EXCEPT !.at = "loop", !.k = 1]
    /\ UNCHANGED <<args, volumeName, retry>>
    /\ UNCHANGED <<pods, flagNS, userNS, attachedpods, rangeLen, idx, serviceName,
                   output, outputYAML, tmpfile, claimExists, requests, console, pc,
                   resanitized>>

\* lines 126-136: one pass of the loop over the projects
FindInProject ==
    /\ pc = "find"
    /\ find.at = "loop"
    /\ find.typeOfMaster = "OpenShift"
    /\ LET ns == find.items[find.k]
           svc == find.services[ns]
           got == [find EXCEPT !.gets = Append(@, ns)]
       IN  find' = IF svc.exists
                      THEN [got EXCEPT !.at = "returned", !.result = ResultOf(svc)]
                   ELSE IF find.k + 1 > Len(find.items)
                      THEN [got EXCEPT !.at = "returned", !.result = NotFound]
                   ELSE [got EXCEPT !.k = @ + 1]
    /\ UNCHANGED <<args, volumeName, retry>>
    /\ UNCHANGED <<pods, flagNS, userNS, attachedpods, rangeLen, idx, serviceName,
                   output, outputYAML, tmpfile, claimExists, requests, console, pc,
                   resanitized>>

\* lines 142-150: one pass of the loop over the namespaces.  The error of Get is
\* not looked at: when Get failed, svc is what the client left in it, an object
\* without annotations or no object at all (the read of line 144 then panics).
FindInNamespace ==
    /\ pc = "find"
    /\ find.at = "loop"
    /\ find.typeOfMaster = "Kubernetes"
    /\ LET ns == find.items[find.k]
           svc == find.services[ns]
           got == [find EXCEPT !.gets = Append(@, ns)]
       IN  \/ find' = [got EXCEPT !.at = "returned", !.result = ResultOf(svc)]
           \/ /\ ~svc.exists
              /\ find' = [got EXCEPT !.at = "panic"]
    /\ UNCHANGED <<args, volumeName, retry>>
    /\ UNCHANGED <<pods, flagNS, userNS, attachedpods, rangeLen, idx, serviceName,
                   output, outputYAML, tmpfile, claimExists, requests, console, pc,
                   resanitized>>

NextFind == FindInCurrent \/ FindList \/ FindInProject \/ FindInNamespace

SpecFind == InitFind /\ [][NextFind]_vars

(***************************************************************************)
(* Properties                                                              *)
(***************************************************************************)
Last(seq) == seq[Len(seq)]

IsKubectl(r, verb) == r.cmd[1] = "kubectl" /\ r.cmd[2] = verb
IsPodDelete(r) == IsKubectl(r, "delete") /\ r.cmd[5] = "pod"
IsClaimDelete(r) == IsKubectl(r, "delete") /\ r.cmd[5] = "pvc"
IsClaimCreate(r) == IsKubectl(r, "create")
IsMutation(r) == IsPodDelete(r) \/ IsClaimDelete(r) \/ IsClaimCreate(r)
IsDiscoveryOrExport(r) ==
    \/ r.cmd[1] \in {"Pods.List", "getLabelValueOfPod", "getPodsDependOfService"}
    \/ IsKubectl(r, "get")

Requests(P(_)) == {i \in 1..Len(requests) : P(requests[i])}
PodDeleteRequests == Requests(IsPodDelete)

Halted(what) ==
    /\ pc = "halted"
    /\ console # <<>>
    /\ Last(console) = [level |-> "fatal", text |-> what]

\* C1: when the claim delete succeeded and the claim create failed, the run has
\* halted on the create command (not the delete command), the failed create is
\* the last request (no rollback), no pod delete was ever requested and the
\* claim is absent.
C1_CreateFailureHalts ==
    (\E i \in Requests(IsClaimCreate) : ~requests[i].ok) =>
        /\ Halted(cmdCreate)
        /\ Last(console).text # cmdDeleteClaim
        /\ Len(requests) >= 2
        /\ Last(requests) = [cmd |-> cmdCreate, ok |-> FALSE]
        /\ requests[Len(requests) - 1] = [cmd |-> cmdDeleteClaim, ok |-> TRUE]
        /\ Cardinality(Requests(IsClaimDelete)) = 1
        /\ Cardinality(Requests(IsClaimCreate)) = 1
        /\ PodDeleteRequests = {}
        /\ ~claimExists

\* C1 witness: a create failure with pods waiting to be deleted
C1_Witness ==
    /\ Halted(cmdCreate)
    /\ ~Last(requests).ok
    /\ attachedpods # <<>>
    /\ outputYAML # <<>>

\* C2: when pod listing, a label lookup, a service-pod lookup or the export
\* failed, the run has halted with that request as its last, no claim delete,
\* claim create or pod delete was requested, and the claim exists.
C2_ReadFailureAbortsBeforeMutation ==
    \A i \in Requests(IsDiscoveryOrExport) :
        ~requests[i].ok =>
            /\ pc = "halted"
            /\ i = Len(requests)
            /\ Requests(IsMutation) = {}
            /\ claimExists

\* C2 witness: the export failed after the service expansion added pods
C2_Witness ==
    /\ pc = "halted"
    /\ requests # <<>>
    /\ Last(requests) = [cmd |-> cmdGet, ok |-> FALSE]
    /\ Len(attachedpods) > rangeLen

\* C3: an export that succeeds with empty content is never followed by a claim
\* delete; the run fails on the export instead.
C3_EmptyExportNeverDeletes ==
    ((\E i \in 1..Len(requests) : requests[i] = [cmd |-> cmdGet, ok |-> TRUE])
        /\ output = <<>>) =>
            Requests(IsClaimDelete) = {}

\* C4 as stated: once the run is over, every pod of the attached-pod collection
\* has got a delete attempt if any pod has.
C4_EveryPodGetsDeleteAttempt ==
    (pc \in {"halted", "done"} /\ PodDeleteRequests # {}) =>
        Cardinality(PodDeleteRequests) = Len(attachedpods)

\* C4 as amended: pods are deleted in the order of the collection and the first
\* failed pod delete halts the run on that command: it is the last request, the
\* pods after it get no delete attempt, and the recreated claim stays.
C4_EvictionStopsAtFirstFailure ==
    /\ \A i \in PodDeleteRequests :
          LET k == Cardinality({j \in PodDeleteRequests : j <= i}) IN
          /\ k <= Len(attachedpods)
          /\ requests[i].cmd = cmdDeletePod(attachedpods[k])
          /\ ~requests[i].ok =>
                /\ i = Len(requests)
                /\ Halted(requests[i].cmd)
    /\ PodDeleteRequests # {} =>
          /\ claimExists
          /\ \A i \in PodDeleteRequests :
                \A j \in Requests(IsClaimDelete) \cup Requests(IsClaimCreate) : j < i

\* C4 witness: a failed pod delete that leaves a later pod without an attempt
C4_Witness ==
    /\ pc = "halted"
    /\ requests # <<>>
    /\ IsPodDelete(Last(requests))
    /\ ~Last(requests).ok
    /\ Cardinality(PodDeleteRequests) < Len(attachedpods)

\* The status blocks of a manifest as the text defines them: a line equal to
\* `status:` and the lines after it up to, not including, the first line that
\* does not start with a space.
StartsWithSpace(line) == line # <<>> /\ line[1] = " "

InStatusBlock(m, i) ==
    \E s \in 1..i :
        /\ m[s] = statusLine
        /\ \A j \in (s + 1)..i : StartsWithSpace(m[j])

OutsideBlocks(m) == {i \in 1..Len(m) : ~InStatusBlock(m, i)}

RECURSIVE PickLines(_, _, _)
PickLines(m, k, keep) ==
    IF k > Len(m) THEN <<>>
    ELSE (IF k \in keep THEN <<m[k]>> ELSE <<>>) \o PickLines(m, k + 1, keep)

Occurrences(seq, line) == Cardinality({i \in 1..Len(seq) : seq[i] = line})

\* the first pass over the drawn manifest has ended normally
Filtered == pc \in {"filtered", "refiltered", "refilter_panic"}

\* C5: for a manifest with a `status:` line, the output of the filter is the
\* manifest without the lines of the status blocks and without the
\* exclusion-prefix lines, all other lines verbatim and in order.
C5_StatusBlockRemovedExactly ==
    (Filtered /\ \E i \in 1..Len(output) : output[i] = statusLine) =>
        outputYAML =
            PickLines(output, 1,
                      {i \in OutsideBlocks(output) : ~stopLine(output[i])})

\* C6: a line outside the status blocks is dropped if and only if its trimmed
\* content starts with an exclusion prefix: each line occurs in the output as
\* often as it occurs outside the blocks when it has no exclusion prefix, and
\* not at all when it has one.
C6_DroppedIffExclusionPrefix ==
    Filtered =>
        \A i \in OutsideBlocks(output) :
            IF stopLine(output[i])
                THEN Occurrences(outputYAML, output[i]) = 0
                ELSE Occurrences(outputYAML, output[i]) >=
                         Cardinality({j \in OutsideBlocks(output) :
                                         output[j] = output[i]})

\* C7: when the filter ran over a manifest and then over its own output, the
\* second pass ended normally and gave exactly the lines of the first.
C7_SanitizeIdempotent ==
    /\ pc # "refilter_panic"
    /\ pc = "refiltered" => resanitized = outputYAML

\* C7 witness: a second pass over an output from which the first pass had
\* removed a status block and a prefix line
C7_Witness ==
    /\ pc = "refiltered"
    /\ output = E2EManifest
    /\ Len(outputYAML) = 5
    /\ resanitized = outputYAML

\* The pods of a namespace that have a volume named like the claim, and those
\* that share a non-empty service label value with one of them.
HasClaimVolume(pod) == \E k \in 1..Len(pod.volumes) : pod.volumes[k] = volumeName

Mounting(ns) == {i \in 1..Len(pods[ns]) : HasClaimVolume(pods[ns][i])}

SharingService(ns) ==
    {j \in 1..Len(pods[ns]) :
        /\ pods[ns][j].service # ""
        /\ \E i \in Mounting(ns) : pods[ns][i].service = pods[ns][j].service}

ExpectedPods(ns) == {PodNames[i] : i \in Mounting(ns) \cup SharingService(ns)}

DeletedPods == {requests[i].cmd[6] : i \in {j \in PodDeleteRequests : requests[j].ok}}

ListSucceeded ==
    \E i \in 1..Len(requests) : requests[i] = [cmd |-> <<"Pods.List", userNS>>, ok |-> TRUE]

\* C8: after a successful run the deleted pods are exactly the pods of the
\* resolved namespace with a volume named like the claim plus the pods sharing
\* a non-empty service label value with one of them, and every pod delete came
\* after the successful claim create.
C8_DeletedSetIsAttachedPlusService ==
    pc = "done" =>
        /\ DeletedPods = ExpectedPods(userNS)
        /\ \A i \in PodDeleteRequests :
              \E j \in 1..(i - 1) : requests[j] = [cmd |-> cmdCreate, ok |-> TRUE]

\* C9: no pod name occurs twice in the attached-pod collection, and no pod gets
\* two delete requests in a run (stated for the runs that send every request to
\* the current namespace).
C9_NoPodTwice ==
    userNS = CurrentNS =>
        /\ \A i, j \in 1..Len(attachedpods) :
              i # j => attachedpods[i] # attachedpods[j]
        /\ \A i, j \in PodDeleteRequests :
              i # j => requests[i].cmd # requests[j].cmd

C11_NoRequestWithoutClaimName ==
    (args = <<>> \/ (args # <<>> /\ args[1] = "")) =>
        /\ requests = <<>>
        /\ pc # "run" => Halted(<<"We need a PVC to delete as argument.">>)

\* C12: a run issues at most one claim delete and at most one claim create, the
\* create directly after the delete that succeeded, and a failed claim delete
\* or claim create is the last request of the run.
C12_DestructiveSequenceNotRetried ==
    /\ Cardinality(Requests(IsClaimDelete)) <= 1
    /\ Cardinality(Requests(IsClaimCreate)) <= 1
    /\ \A i \in Requests(IsClaimCreate) :
          /\ i > 1
          /\ requests[i - 1] = [cmd |-> cmdDeleteClaim, ok |-> TRUE]
    /\ \A i \in Requests(IsClaimDelete) \cup Requests(IsClaimCreate) :
          ~requests[i].ok => i = Len(requests) /\ pc = "halted"

\* C12 witness: a run that ended on a failed claim delete
C12_Witness ==
    /\ pc = "halted"
    /\ requests # <<>>
    /\ Last(requests) = [cmd |-> cmdDeleteClaim, ok |-> FALSE]
    /\ Cardinality(Requests(IsClaimDelete)) = 1

\* text holds the parts one after the other, in their order
RECURSIVE ContainsInOrder(_, _, _)
ContainsInOrder(text, parts, from) ==
    \/ parts = <<>>
    \/ \E q \in from..(Len(text) - Len(parts[1]) + 1) :
          /\ SubSeq(text, q, q + Len(parts[1]) - 1) = parts[1]
          /\ ContainsInOrder(text, Tail(parts), q + Len(parts[1]))

RetrySucceeded == retry.calls # <<>> /\ Last(retry.calls).isNil

\* C13: RetryAfter with attempts >= 1 never invokes the callback more than
\* attempts times and never after an invocation that returned nil; it returns
\* nil when an invocation returned nil; otherwise it returns after attempts
\* invocations an error whose text holds the text of every attempt's error,
\* in attempt order.
C13_RetryAfterContract ==
    (pc = "retry" /\ retry.attempts >= 1) =>
        /\ Len(retry.calls) <= retry.attempts
        /\ \A k \in 1..(Len(retry.calls) - 1) : ~retry.calls[k].isNil
        /\ RetrySucceeded => retry.returned /\ retry.err.isNil
        /\ (retry.returned /\ ~RetrySucceeded) =>
              /\ Len(retry.calls) = retry.attempts
              /\ ~retry.err.isNil
              /\ ContainsInOrder(retry.err.text,
                                 [k \in 1..Len(retry.calls) |-> retry.calls[k].text], 1)

IsLabelLookup(r) == r.cmd[1] = "getLabelValueOfPod"
IsServiceLookup(r) == r.cmd[1] = "getPodsDependOfService"

\* C14: the k-th service-label lookup of a run is for the k-th pod of the
\* discovery scan's result, there are no more lookups than the scan returned
\* pods, and no more service lookups than label lookups: a pod appended during
\* the expansion is never looked up for its own sake.
C14_ExpansionIsOnePass ==
    /\ \A i \in Requests(IsLabelLookup) :
          LET scan == findPodsAttachedtoPVC(volumeName, userNS)
              k == Cardinality({j \in Requests(IsLabelLookup) : j <= i})
          IN  /\ k <= Len(scan)
              /\ requests[i].cmd[3] = scan[k]
    /\ Cardinality(Requests(IsServiceLookup)) <= Cardinality(Requests(IsLabelLookup))

\* C14 witness: the loop is over, the expansion appended a pod the scan had not
\* returned, that pod carries a service label, and there were exactly as many
\* label lookups as the scan returned pods
C14_Witness ==
    /\ pc = "export"
    /\ Cardinality(Requests(IsLabelLookup))
          = Len(findPodsAttachedtoPVC(volumeName, userNS))
    /\ \E j \in 1..Len(attachedpods) :
          /\ \A k \in 1..Len(findPodsAttachedtoPVC(volumeName, userNS)) :
                findPodsAttachedtoPVC(volumeName, userNS)[k] # attachedpods[j]
          /\ getLabelValueOfPod(CurrentNS, attachedpods[j]) # ""

\* C15: a failed claim delete is the last request of the run: the run has
\* halted on the delete command, no claim create and no pod delete was ever
\* requested, and the claim has not been removed.
C15_ClaimDeleteFailureHalts ==
    \A i \in Requests(IsClaimDelete) :
        ~requests[i].ok =>
            /\ i = Len(requests)
            /\ Halted(cmdDeleteClaim)
            /\ Requests(IsClaimCreate) = {}
            /\ PodDeleteRequests = {}
            /\ claimExists

\* C15 witness: the claim delete failed in a run that had pods to delete
C15_Witness ==
    /\ requests # <<>>
    /\ Last(requests) = [cmd |-> cmdDeleteClaim, ok |-> FALSE]
    /\ attachedpods # <<>>
    /\ outputYAML # <<>>

\* the namespaces FindServiceInEveryNamespace is to search, in search order
SearchOrder == <<CurrentNS>> \o find.items
Holding == {j \in 1..Len(SearchOrder) : find.services[SearchOrder[j]].exists}
FirstHolding == SearchOrder[CHOOSE j \in Holding : \A h \in Holding : j <= h]

\* C16: FindServiceInEveryNamespace does not fault; once the listing succeeded,
\* it returns the not-found error only when no searched namespace holds the
\* service, when one does it returns the result of the service of the first
\* such namespace in search order, and the Get after which it returns a
\* service's result is never one on a namespace without the service.
C16_FoundWhereverItExists ==
    /\ (pc = "find") => find.at # "panic"
    /\ (pc = "find" /\ find.at = "returned" /\ find.result.err # "List") =>
          /\ find.result = NotFound => Holding = {}
          /\ Holding # {} => find.result = ResultOf(find.services[FirstHolding])
          /\ find.result # NotFound => find.services[Last(find.gets)].exists

\* C17: the filter loop never faults, whatever the lines of the manifest are,
\* and a zero-length line is kept like any other line that does not start with
\* whitespace: the output has as many of them as the manifest.
C17_FilterNeverFaults ==
    /\ pc \notin {"filter_panic", "refilter_panic"}
    /\ Filtered => Occurrences(outputYAML, <<>>) = Occurrences(output, <<>>)

\* the namespace a request names
TargetNamespace(r) ==
    IF r.cmd[1] = "kubectl"
        THEN (IF r.cmd[2] = "get" THEN r.cmd[6] ELSE r.cmd[4])
        ELSE r.cmd[2]

ResolvedNamespace == IF flagNS # "" THEN flagNS ELSE CurrentNS

\* C18: every request of a run after the namespace is resolved (pod listing,
\* label lookup, service lookup, export, claim delete, claim create, pod
\* delete) names the resolved namespace: the flag's when the flag is set, the
\* current one otherwise.
C18_OneResolvedNamespace ==
    \A i \in 1..Len(requests) :
        requests[i].cmd[1] # "detectCurrentUserNamespace" =>
            TargetNamespace(requests[i]) = ResolvedNamespace

====
